---- MODULE Spec2Model ----
(***************************************************************************)
(* A model of itchy (adwhit/itchy-rust): the MessageStream iterator of     *)
(* src/lib.rs (buffer, cursors, error latch, refill and compaction) and    *)
(* the nom parsers of src/lib.rs and src/enums.rs that decode one ITCH 5.0 *)
(* frame from the unread window.                                           *)
(*                                                                         *)
(* Bytes are integers 0..255.  An array is the sequence of its bytes up to  *)
(* the highest index written (index k of the array is element k + 1); the  *)
(* bytes beyond still hold the 0 the array was created with.  A Rust slice *)
(* &[u8] is a view [buf, lo, hi] of an array.  Integers wider than 16 bits *)
(* are kept as their big-endian base-65536 digits (TLC's integers are 32   *)
(* bits wide).                                                             *)
(***************************************************************************)
EXTENDS Integers, Sequences, FiniteSets, TLC

(***************************************************************************)
(* Bytes, characters and slices                                            *)
(***************************************************************************)
AsciiUpper == <<"A","B","C","D","E","F","G","H","I","J","K","L","M",
                "N","O","P","Q","R","S","T","U","V","W","X","Y","Z">>

\* The byte of an ASCII character literal (b'A', char('A')).
Ord(c) ==
    CASE c = " " -> 32
      [] c = "0" -> 48
      [] c = "1" -> 49
      [] c = "2" -> 50
      [] c = "3" -> 51
      [] OTHER   -> 64 + (CHOOSE k \in 1..26 : AsciiUpper[k] = c)

MinOf(S) == CHOOSE x \in S : \A y \in S : x <= y

\* The element of a one-element set: Only({e(x) : x \in {v}}) is e(v), with v
\* computed once (a `let x = v;` of the source).
Only(S) == CHOOSE x \in S : TRUE

\* &a[lo..hi] of an array a indexed from 0.
Slice(a, lo, hi) == [buf |-> a, lo |-> lo, hi |-> hi]
\* &s[..] of a whole array.
SliceOf(s) == [buf |-> s, lo |-> 0, hi |-> Len(s)]
SLen(i) == i.hi - i.lo
At(i, k) == i.buf[i.lo + k + 1]
\* &i[n..]
From(i, n) == [i EXCEPT !.lo = @ + n]
\* The first n bytes of i, as a sequence.
Bytes(i, n) == [k \in 1..n |-> At(i, k - 1)]

(***************************************************************************)
(* nom's IResult.  Panic is the unwinding of unwrap() and unreachable!().  *)
(***************************************************************************)
Ok(rest, val) == [t |-> "Ok", rest |-> rest, val |-> val, code |-> "-"]
Incomplete    == [t |-> "Incomplete", rest |-> <<>>, val |-> <<>>, code |-> "-"]
Error(code)   == [t |-> "Error", rest |-> <<>>, val |-> <<>>, code |-> code]
Panic(why)    == [t |-> "Panic", rest |-> <<>>, val |-> <<>>, code |-> why]

(***************************************************************************)
(* nom::number::streaming and nom::bytes::streaming                        *)
(***************************************************************************)
be_u8(i)  == IF SLen(i) < 1 THEN Incomplete ELSE Ok(From(i, 1), At(i, 0))
be_u16(i) == IF SLen(i) < 2 THEN Incomplete
             ELSE Ok(From(i, 2), At(i, 0) * 256 + At(i, 1))
be_u32(i) == IF SLen(i) < 4 THEN Incomplete
             ELSE Ok(From(i, 4), << At(i, 0) * 256 + At(i, 1),
                                    At(i, 2) * 256 + At(i, 3) >>)
be_u64(i) == IF SLen(i) < 8 THEN Incomplete
             ELSE Ok(From(i, 8), << At(i, 0) * 256 + At(i, 1),
                                    At(i, 2) * 256 + At(i, 3),
                                    At(i, 4) * 256 + At(i, 5),
                                    At(i, 6) * 256 + At(i, 7) >>)
\* A take that leaves the last of its n bytes unread.
take_LeavesLast(i, n) ==
    IF SLen(i) < n THEN Incomplete ELSE Ok(From(i, n - 1), Bytes(i, n))

take(i, n) == IF SLen(i) < n THEN Incomplete ELSE Ok(From(i, n), Bytes(i, n))

\* nom::number::complete::be_u8, the one non-streaming primitive (enums.rs).
complete_be_u8(i) == IF SLen(i) < 1 THEN Error("Eof") ELSE Ok(From(i, 1), At(i, 0))

\* alt((map(char(c1), |_| v1), map(char(c2), |_| v2), ...)) over a table of
\* <<c, v>>: the first alternative already reports Incomplete on an empty
\* input; a byte no alternative accepts is Err::Error with ErrorKind::Char.
AltChar(i, table) ==
    IF SLen(i) = 0 THEN Incomplete
    ELSE LET hits == {k \in 1..Len(table) : Ord(table[k][1]) = At(i, 0)}
         IN  IF hits = {} THEN Error("Char")
             ELSE Ok(From(i, 1), table[MinOf(hits)][2])

\* map_opt!(input, p, |v| Some(match v { k1 => v1, ..., _ => return None }))
\* applied to p's result r, over a table of <<k, v>>: None is Err::Error with
\* ErrorKind::MapOpt, and p's own Incomplete or Error passes through.
MapOpt(r, table) ==
    IF r.t # "Ok" THEN r
    ELSE LET hits == {k \in 1..Len(table) : table[k][1] = r.val}
         IN  IF hits = {} THEN Error("MapOpt")
             ELSE Ok(r.rest, table[MinOf(hits)][2])

(***************************************************************************)
(* core::str::from_utf8: is the byte sequence s well-formed UTF-8?         *)
(***************************************************************************)
IsCont(b) == b >= 128 /\ b <= 191

RECURSIVE Utf8From(_, _)
Utf8From(s, k) ==
    IF k > Len(s) THEN TRUE
    ELSE LET b    == s[k]
             has(n) == k + n <= Len(s)
         IN  IF b <= 127 THEN Utf8From(s, k + 1)
             ELSE IF b >= 194 /\ b <= 223
                  THEN has(1) /\ IsCont(s[k + 1]) /\ Utf8From(s, k + 2)
             ELSE IF b = 224
                  THEN has(2) /\ s[k + 1] >= 160 /\ s[k + 1] <= 191
                       /\ IsCont(s[k + 2]) /\ Utf8From(s, k + 3)
             ELSE IF (b >= 225 /\ b <= 236) \/ b = 238 \/ b = 239
                  THEN has(2) /\ IsCont(s[k + 1]) /\ IsCont(s[k + 2])
                       /\ Utf8From(s, k + 3)
             ELSE IF b = 237
                  THEN has(2) /\ s[k + 1] >= 128 /\ s[k + 1] <= 159
                       /\ IsCont(s[k + 2]) /\ Utf8From(s, k + 3)
             ELSE IF b = 240
                  THEN has(3) /\ s[k + 1] >= 144 /\ s[k + 1] <= 191
                       /\ IsCont(s[k + 2]) /\ IsCont(s[k + 3]) /\ Utf8From(s, k + 4)
             ELSE IF b >= 241 /\ b <= 243
                  THEN has(3) /\ IsCont(s[k + 1]) /\ IsCont(s[k + 2])
                       /\ IsCont(s[k + 3]) /\ Utf8From(s, k + 4)
             ELSE IF b = 244
                  THEN has(3) /\ s[k + 1] >= 128 /\ s[k + 1] <= 143
                       /\ IsCont(s[k + 2]) /\ IsCont(s[k + 3]) /\ Utf8From(s, k + 4)
             ELSE FALSE

from_utf8_ok(s) == Utf8From(s, 1)

\* map(take(K), |s| ArrayString::from(str::from_utf8(s).unwrap()).unwrap()):
\* K bytes always fit the ArrayString<K>; from_utf8's Err makes unwrap panic.
FixedText(i, K) ==
    LET r == take(i, K)
    IN  IF r.t # "Ok" THEN r
        ELSE IF from_utf8_ok(r.val) THEN r ELSE Panic("from_utf8")

(***************************************************************************)
(* Field decoders of src/lib.rs                                            *)
(***************************************************************************)
char2bool(i) == AltChar(i, << <<"Y", TRUE>>, <<"N", FALSE>> >>)

\* Option<T>
None    == <<"None">>
Some(x) == <<"Some", x>>

\* A tri-state decoder that takes 'M' as the ETP flag does.
maybe_char2bool_TakesM(i) ==
    AltChar(i, << <<"Y", Some(TRUE)>>, <<"N", Some(FALSE)>>, <<" ", None>>,
                  <<"M", Some(TRUE)>> >>)

maybe_char2bool(i) ==
    AltChar(i, << <<"Y", Some(TRUE)>>, <<"N", Some(FALSE)>>, <<" ", None>> >>)

parse_etp_flag(i) ==
    AltChar(i, << <<"Y", Some(TRUE)>>, <<"N", Some(FALSE)>>, <<" ", None>>,
                  <<"M", Some(TRUE)>> >>)

stock(i) == FixedText(i, 8)

\* A be_u48 that takes its last two bytes in the wrong order.
be_u48_LastSwapped(i) ==
    IF SLen(i) < 6 THEN Incomplete
    ELSE Ok(From(i, 6), << At(i, 0) * 256 + At(i, 1),
                           At(i, 2) * 256 + At(i, 3),
                           At(i, 5) * 256 + At(i, 4) >>)

\* The u64 ((i[0] as u64) << 40) + .. + i[5] as u64, as three 16-bit limbs.
be_u48(i) == IF SLen(i) < 6 THEN Incomplete
             ELSE Ok(From(i, 6), << At(i, 0) * 256 + At(i, 1),
                                    At(i, 2) * 256 + At(i, 3),
                                    At(i, 4) * 256 + At(i, 5) >>)

(***************************************************************************)
(* Enumeration tables: the code -> variant arms of each alt((...)) of      *)
(* src/lib.rs and of each match of src/enums.rs, in the source's order.    *)
(***************************************************************************)
EventCodeTable ==
    << <<"O", "StartOfMessages">>, <<"S", "StartOfSystemHours">>, <<"Q", "StartOfMarketHours">>,
       <<"M", "EndOfMarketHours">>, <<"E", "EndOfSystemHours">>, <<"C", "EndOfMessages">> >>

MarketCategoryTable ==
    << <<"Q", "NasdaqGlobalSelect">>, <<"G", "NasdaqGlobalMarket">>, <<"S", "NasdaqCapitalMarket">>,
       <<"N", "Nyse">>, <<"A", "NyseMkt">>, <<"P", "NyseArca">>,
       <<"Z", "BatsZExchange">>, <<"V", "InvestorsExchange">>, <<" ", "Unavailable">> >>

FinancialStatusTable ==
    << <<"N", "Normal">>, <<"D", "Deficient">>, <<"E", "Delinquent">>,
       <<"Q", "Bankrupt">>, <<"S", "Suspended">>, <<"G", "DeficientBankrupt">>,
       <<"H", "DeficientDelinquent">>, <<"J", "DelinquentBankrupt">>, <<"K", "DeficientDelinquentBankrupt">>,
       <<"C", "EtpSuspended">>, <<" ", "Unavailable">> >>

LuldRefPriceTierTable ==
    << <<" ", "Na">>, <<"1", "Tier1">>, <<"2", "Tier2">> >>

MarketMakerModeTable ==
    << <<"N", "Normal">>, <<"P", "Passive">>, <<"S", "Syndicate">>,
       <<"R", "Presyndicate">>, <<"L", "Penalty">> >>

MarketParticipantStateTable ==
    << <<"A", "Active">>, <<"E", "Excused">>, <<"W", "Withdrawn">>,
       <<"S", "Suspended">>, <<"D", "Deleted">> >>

RegShoActionTable ==
    << <<"0", "None">>, <<"1", "Intraday">>, <<"2", "Extant">> >>

TradingStateTable ==
    << <<"H", "Halted">>, <<"P", "Paused">>, <<"Q", "QuotationOnly">>,
       <<"T", "Trading">> >>

AddOrderSideTable ==
    << <<"B", "Buy">>, <<"S", "Sell">> >>

ImbalanceDirectionTable ==
    << <<"B", "Buy">>, <<"S", "Sell">>, <<"N", "NoImbalance">>,
       <<"O", "InsufficientOrders">> >>

ImbalanceCrossTypeTable ==
    << <<"O", "Opening">>, <<"C", "Closing">>, <<"H", "IpoOrHalted">>,
       <<"A", "ExtendedTradingClose">> >>

CrossTradeCrossTypeTable ==
    << <<"O", "Opening">>, <<"C", "Closing">>, <<"H", "IpoOrHalted">>,
       <<"I", "Intraday">>, <<"A", "ExtendedTradingClose">> >>

InterestFlagTable ==
    << <<"B", "RPIAvailableBuySide">>, <<"S", "RPIAvailableSellSide">>, <<"A", "RPIAvailableBothSides">>,
       <<"N", "RPINoneAvailable">> >>

NonCrossSideTable ==
    << <<"B", "Buy">>, <<"S", "Sell">> >>

IpoReleaseQualifierTable ==
    << <<"A", "Anticipated">>, <<"C", "Cancelled">> >>

LevelBreachedTable ==
    << <<"1", "L1">>, <<"2", "L2">>, <<"3", "L3">> >>

B2(a, b) == <<Ord(a), Ord(b)>>

IssueClassificationTable ==
    << <<Ord("A"), "AmericanDepositaryShare">>, <<Ord("B"), "Bond">>,
       <<Ord("C"), "CommonStock">>, <<Ord("F"), "DepositoryReceipt">>,
       <<Ord("I"), "A144">>, <<Ord("L"), "LimitedPartnership">>,
       <<Ord("N"), "Notes">>, <<Ord("O"), "OrdinaryShare">>,
       <<Ord("P"), "PreferredStock">>, <<Ord("Q"), "OtherSecurities">>,
       <<Ord("R"), "Right">>, <<Ord("S"), "SharesOfBeneficialInterest">>,
       <<Ord("T"), "ConvertibleDebenture">>, <<Ord("U"), "Unit">>,
       <<Ord("V"), "UnitsPerBenifInt">>, <<Ord("W"), "Warrant">> >>

IssueSubTypeTable ==
    << <<B2("A", " "), "PreferredTrustSecurities">>, <<B2("A", "I"), "AlphaIndexETNs">>,
       <<B2("B", " "), "IndexBasedDerivative">>, <<B2("C", " "), "CommonShares">>,
       <<B2("C", "B"), "CommodityBasedTrustShares">>, <<B2("C", "F"), "CommodityFuturesTrustShares">>,
       <<B2("C", "L"), "CommodityLinkedSecurities">>, <<B2("C", "M"), "CommodityIndexTrustShares">>,
       <<B2("C", "O"), "CollateralizedMortgageObligation">>, <<B2("C", "T"), "CurrencyTrustShares">>,
       <<B2("C", "U"), "CommodityCurrencyLinkedSecurities">>, <<B2("C", "W"), "CurrencyWarrants">>,
       <<B2("D", " "), "GlobalDepositaryShares">>, <<B2("E", " "), "ETFPortfolioDepositaryReceipt">>,
       <<B2("E", "G"), "EquityGoldShares">>, <<B2("E", "I"), "ETNEquityIndexLinkedSecurities">>,
       <<B2("E", "M"), "ExchangeTradedManagedFunds">>, <<B2("E", "N"), "ExchangeTradedNotes">>,
       <<B2("E", "U"), "EquityUnits">>, <<B2("F", " "), "Holdrs">>,
       <<B2("F", "I"), "ETNFixedIncomeLinkedSecurities">>, <<B2("F", "L"), "ETNFuturesLinkedSecurities">>,
       <<B2("G", " "), "GlobalShares">>, <<B2("I", " "), "ETFIndexFundShares">>,
       <<B2("I", "R"), "InterestRate">>, <<B2("I", "W"), "IndexWarrant">>,
       <<B2("I", "X"), "IndexLinkedExchangeableNotes">>, <<B2("J", " "), "CorporateBackedTrustSecurity">>,
       <<B2("L", " "), "ContingentLitigationRight">>, <<B2("L", "L"), "Llc">>,
       <<B2("M", " "), "EquityBasedDerivative">>, <<B2("M", "F"), "ManagedFundShares">>,
       <<B2("M", "L"), "ETNMultiFactorIndexLinkedSecurities">>, <<B2("M", "T"), "ManagedTrustSecurities">>,
       <<B2("N", " "), "NYRegistryShares">>, <<B2("O", " "), "OpenEndedMutualFund">>,
       <<B2("P", " "), "PrivatelyHeldSecurity">>, <<B2("P", "P"), "PoisonPill">>,
       <<B2("P", "U"), "PartnershipUnits">>, <<B2("Q", " "), "ClosedEndFunds">>,
       <<B2("R", " "), "RegS">>, <<B2("R", "C"), "CommodityRedeemableCommodityLinkedSecurities">>,
       <<B2("R", "F"), "ETNRedeemableFuturesLinkedSecurities">>, <<B2("R", "T"), "REIT">>,
       <<B2("R", "U"), "CommodityRedeemableCurrencyLinkedSecurities">>, <<B2("S", " "), "Seed">>,
       <<B2("S", "C"), "SpotRateClosing">>, <<B2("S", "I"), "SpotRateIntraday">>,
       <<B2("T", " "), "TrackingStock">>, <<B2("T", "C"), "TrustCertificates">>,
       <<B2("T", "U"), "TrustUnits">>, <<B2("U", " "), "Portal">>,
       <<B2("V", " "), "ContingentValueRight">>, <<B2("W", " "), "TrustIssuedReceipts">>,
       <<B2("W", "C"), "WorldCurrencyOption">>, <<B2("X", " "), "Trust">>,
       <<B2("Y", " "), "Other">>, <<B2("Z", " "), "NotApplicable">> >>

\* The authenticity flag of parse_stock_directory: alt of 'P' and 'T'.
AuthenticityTable == << <<"P", TRUE>>, <<"T", FALSE>> >>

parse_issue_classification(i) == MapOpt(complete_be_u8(i), IssueClassificationTable)

\* take!(2) is nom::bytes::streaming::take.
parse_issue_subtype(i) == MapOpt(take(i, 2), IssueSubTypeTable)

\* Price4(u32) and Price8(u64), built by .into()
Price4(v) == [Price4 |-> v]
Price8(v) == [Price8 |-> v]

\* Price4::raw and Price8::raw: self.0
raw(p) == IF "Price4" \in DOMAIN p THEN p.Price4 ELSE p.Price8

\* rust_decimal::Decimal as the decimal digits of its mantissa (most significant
\* first, none for zero) and its scale: the value is digits / 10^scale.
\* MaxScale is the largest scale a Decimal holds.
MaxScale == 28

\* One step of dividing a base-65536 number by ten: <<quotient limbs, remainder>>.
RECURSIVE LimbsDivTen(_, _, _)
LimbsDivTen(limbs, carry, acc) ==
    IF limbs = <<>> THEN <<acc, carry>>
    ELSE LimbsDivTen(Tail(limbs), (carry * 65536 + Head(limbs)) % 10,
                     Append(acc, (carry * 65536 + Head(limbs)) \div 10))

IsZeroLimbs(limbs) == \A k \in 1..Len(limbs) : limbs[k] = 0

\* Decimal::from(u32) and Decimal::from(u64): the same integer, scale 0.
RECURSIVE DigitsOf(_, _)
DigitsOf(limbs, acc) ==
    IF IsZeroLimbs(limbs) THEN acc
    ELSE Only({ DigitsOf(qr[1], <<qr[2]>> \o acc) : qr \in {LimbsDivTen(limbs, 0, <<>>)} })

DecimalFrom(limbs) == [digits |-> DigitsOf(limbs, <<>>), scale |-> 0]

DropZeros(ds) ==
    IF \A k \in 1..Len(ds) : ds[k] = 0 THEN <<>>
    ELSE SubSeq(ds, MinOf({k \in 1..Len(ds) : ds[k] # 0}), Len(ds))

\* Decimal / Decimal for a divisor of scale 0 below 2^31 / 10, by long division:
\* first over the digits of the dividend, then one more decimal place at a time
\* while a remainder is left and the scale allows.  A remainder left at
\* MaxScale is rounded away; rounded tells whether that happened.
RECURSIVE LongDiv(_, _, _, _, _)
LongDiv(ds, d, r, q, scale) ==
    IF ds # <<>>
    THEN LongDiv(Tail(ds), d, (r * 10 + Head(ds)) % d,
                 Append(q, (r * 10 + Head(ds)) \div d), scale)
    ELSE IF r = 0 \/ scale = MaxScale
    THEN [digits |-> DropZeros(q), scale |-> scale, rounded |-> r # 0]
    ELSE LongDiv(<<>>, d, (r * 10) % d, Append(q, (r * 10) \div d), scale + 1)

DecimalDiv(a, d) ==
    Only({ [digits |-> q.digits, scale |-> q.scale]
           : q \in {LongDiv(a.digits, d, 0, <<>>, a.scale)} })

\* A divisor that loses the last decimal place of every price.
DecimalOfPrice4_Tenfold(p) == DecimalDiv(DecimalFrom(raw(p)), 1000)

\* impl From<Price4> for Decimal: Self::from(val.0) / Self::from(10_000)
DecimalOfPrice4(p) == DecimalDiv(DecimalFrom(raw(p)), 10000)

\* impl From<Price8> for Decimal: Decimal::from(val.0) / Decimal::from(100_000_000)
DecimalOfPrice8(p) == DecimalDiv(DecimalFrom(raw(p)), 100000000)

\* Decimal::from_str of a text of digits with one point: "1234.0001" is
\* <<1,2,3,4>> and <<0,0,0,1>>.
DecimalFromStr(whole, frac) ==
    [digits |-> DropZeros(whole \o frac), scale |-> Len(frac)]

\* Decimal's == compares values, not representations: 1.50 == 1.5.
RECURSIVE Zeros(_)
Zeros(n) == IF n = 0 THEN <<>> ELSE <<0>> \o Zeros(n - 1)

DecimalEq(x, y) ==
    LET s == IF x.scale > y.scale THEN x.scale ELSE y.scale
    IN  DropZeros(x.digits \o Zeros(s - x.scale)) = DropZeros(y.digits \o Zeros(s - y.scale))

(***************************************************************************)
(* One field of a body: the parser the source calls at that line.          *)
(***************************************************************************)
Field(kind, i) ==
    CASE kind = "be_u8"  -> be_u8(i)
      [] kind = "be_u16" -> be_u16(i)
      [] kind = "be_u32" -> be_u32(i)
      [] kind = "be_u48" -> be_u48(i)
      [] kind = "be_u64" -> be_u64(i)
      [] kind = "stock"  -> stock(i)
      [] kind = "take4"  -> FixedText(i, 4)
      [] kind = "char2bool"       -> char2bool(i)
      [] kind = "maybe_char2bool" -> maybe_char2bool(i)
      [] kind = "parse_etp_flag"  -> parse_etp_flag(i)
      [] kind = "parse_issue_classification" -> parse_issue_classification(i)
      [] kind = "parse_issue_subtype"        -> parse_issue_subtype(i)
      [] kind = "event_code"         -> AltChar(i, EventCodeTable)
      [] kind = "market_category"    -> AltChar(i, MarketCategoryTable)
      [] kind = "financial_status"   -> AltChar(i, FinancialStatusTable)
      [] kind = "authenticity"       -> AltChar(i, AuthenticityTable)
      [] kind = "luld_ref_price_tier"      -> AltChar(i, LuldRefPriceTierTable)
      [] kind = "market_maker_mode"        -> AltChar(i, MarketMakerModeTable)
      [] kind = "market_participant_state" -> AltChar(i, MarketParticipantStateTable)
      [] kind = "reg_sho_action"     -> AltChar(i, RegShoActionTable)
      [] kind = "trading_state"      -> AltChar(i, TradingStateTable)
      [] kind = "add_order_side"     -> AltChar(i, AddOrderSideTable)
      [] kind = "noncross_side"      -> AltChar(i, NonCrossSideTable)
      [] kind = "imbalance_direction"   -> AltChar(i, ImbalanceDirectionTable)
      [] kind = "imbalance_cross_type"  -> AltChar(i, ImbalanceCrossTypeTable)
      [] kind = "cross_trade_cross_type" -> AltChar(i, CrossTradeCrossTypeTable)
      [] kind = "interest_flag"      -> AltChar(i, InterestFlagTable)
      [] kind = "release_qualifier"  -> AltChar(i, IpoReleaseQualifierTable)
      [] kind = "level_breached"     -> AltChar(i, LevelBreachedTable)

\* let (input, a) = p1(input)?; let (input, b) = p2(input)?; ...: the parsers
\* of layout run in order on what the one before left, and the first that is
\* not Ok ends the function with its result (the ? operator).
RECURSIVE Fields(_, _, _)
Fields(i, layout, acc) ==
    IF layout = <<>> THEN Ok(i, acc)
    ELSE Only({ IF r.t # "Ok" THEN r
                ELSE Fields(r.rest, Tail(layout), Append(acc, r.val))
                : r \in {Field(Head(layout), i)} })

Body(variant, v) == [variant |-> variant, v |-> v]

(***************************************************************************)
(* The body parsers of src/lib.rs                                          *)
(***************************************************************************)
parse_system_event(i) ==
    LET done(r) ==
        IF r.t # "Ok" THEN r
        ELSE Ok(r.rest, Body("SystemEvent", [event |-> r.val[1]]))
    IN  Only({ done(r) : r \in {Fields(i, <<"event_code">>, <<>>)} })

parse_stock_directory(i) ==
    LET done(r) ==
        IF r.t # "Ok" THEN r
        ELSE Ok(r.rest,
                [stock |-> r.val[1], market_category |-> r.val[2],
                 financial_status |-> r.val[3], round_lot_size |-> r.val[4],
                 round_lots_only |-> r.val[5], issue_classification |-> r.val[6],
                 issue_subtype |-> r.val[7], authenticity |-> r.val[8],
                 short_sale_threshold |-> r.val[9], ipo_flag |-> r.val[10],
                 luld_ref_price_tier |-> r.val[11], etp_flag |-> r.val[12],
                 etp_leverage_factor |-> r.val[13], inverse_indicator |-> r.val[14]])
    IN  Only({ done(r) : r \in {Fields(i, <<"stock", "market_category", "financial_status", "be_u32",
                         "char2bool", "parse_issue_classification",
                         "parse_issue_subtype", "authenticity", "maybe_char2bool",
                         "maybe_char2bool", "luld_ref_price_tier", "parse_etp_flag",
                         "be_u32", "char2bool">>, <<>>)} })

parse_participant_position(i) ==
    LET done(r) ==
        IF r.t # "Ok" THEN r
        ELSE Ok(r.rest,
                [mpid |-> r.val[1], stock |-> r.val[2],
                 primary_market_maker |-> r.val[3], market_maker_mode |-> r.val[4],
                 market_participant_state |-> r.val[5]])
    IN  Only({ done(r) : r \in {Fields(i, <<"take4", "stock", "char2bool", "market_maker_mode",
                         "market_participant_state">>, <<>>)} })

parse_reg_sho_restriction(i) ==
    LET done(r) ==
        IF r.t # "Ok" THEN r
        ELSE Ok(r.rest, Body("RegShoRestriction",
                             [stock |-> r.val[1], action |-> r.val[2]]))
    IN  Only({ done(r) : r \in {Fields(i, <<"stock", "reg_sho_action">>, <<>>)} })

\* The reserved byte (r.val[3]) is read and dropped.
parse_trading_action(i) ==
    LET done(r) ==
        IF r.t # "Ok" THEN r
        ELSE Ok(r.rest, Body("TradingAction",
                             [stock |-> r.val[1], trading_state |-> r.val[2],
                              reason |-> r.val[4]]))
    IN  Only({ done(r) : r \in {Fields(i, <<"stock", "trading_state", "be_u8", "take4">>, <<>>)} })

\* An Add Order decoder that reads the attribution whatever the tag.
parse_add_order_AlwaysAttributed(i, attribution) ==
    LET done(r) ==
        IF r.t # "Ok" THEN r
        ELSE Ok(r.rest,
                [reference |-> r.val[1], side |-> r.val[2], shares |-> r.val[3],
                 stock |-> r.val[4], price |-> Price4(r.val[5]),
                 mpid |-> Some(r.val[6])])
    IN  Only({ done(r) : r \in {Fields(i, <<"be_u64", "add_order_side", "be_u32", "stock",
                                           "be_u32", "take4">>, <<>>)} })

parse_add_order(i, attribution) ==
    LET done(r) ==
        IF r.t # "Ok" THEN r
        ELSE Ok(r.rest,
                [reference |-> r.val[1], side |-> r.val[2], shares |-> r.val[3],
                 stock |-> r.val[4], price |-> Price4(r.val[5]),
                 mpid |-> IF attribution THEN Some(r.val[6]) ELSE None])
    IN  Only({ done(r) : r \in {Fields(i, <<"be_u64", "add_order_side", "be_u32", "stock", "be_u32">>
                       \o (IF attribution THEN <<"take4">> ELSE <<>>), <<>>)} })

parse_replace_order(i) ==
    LET done(r) ==
        IF r.t # "Ok" THEN r
        ELSE Ok(r.rest,
                [old_reference |-> r.val[1], new_reference |-> r.val[2],
                 shares |-> r.val[3], price |-> Price4(r.val[4])])
    IN  Only({ done(r) : r \in {Fields(i, <<"be_u64", "be_u64", "be_u32", "be_u32">>, <<>>)} })

parse_imbalance_indicator(i) ==
    LET done(r) ==
        IF r.t # "Ok" THEN r
        ELSE Ok(r.rest,
                [paired_shares |-> r.val[1], imbalance_shares |-> r.val[2],
                 imbalance_direction |-> r.val[3], stock |-> r.val[4],
                 far_price |-> Price4(r.val[5]), near_price |-> Price4(r.val[6]),
                 current_ref_price |-> Price4(r.val[7]), cross_type |-> r.val[8],
                 price_variation_indicator |-> r.val[9]])
    IN  Only({ done(r) : r \in {Fields(i, <<"be_u64", "be_u64", "imbalance_direction", "stock", "be_u32",
                         "be_u32", "be_u32", "imbalance_cross_type", "be_u8">>, <<>>)} })

parse_cross_trade(i) ==
    LET done(r) ==
        IF r.t # "Ok" THEN r
        ELSE Ok(r.rest,
                [shares |-> r.val[1], stock |-> r.val[2],
                 cross_price |-> Price4(r.val[3]), match_number |-> r.val[4],
                 cross_type |-> r.val[5]])
    IN  Only({ done(r) : r \in {Fields(i, <<"be_u64", "stock", "be_u32", "be_u64",
                         "cross_trade_cross_type">>, <<>>)} })

parse_retail_price_improvement_indicator(i) ==
    LET done(r) ==
        IF r.t # "Ok" THEN r
        ELSE Ok(r.rest, [stock |-> r.val[1], interest_flag |-> r.val[2]])
    IN  Only({ done(r) : r \in {Fields(i, <<"stock", "interest_flag">>, <<>>)} })

parse_noncross_trade(i) ==
    LET done(r) ==
        IF r.t # "Ok" THEN r
        ELSE Ok(r.rest,
                [reference |-> r.val[1], side |-> r.val[2], shares |-> r.val[3],
                 stock |-> r.val[4], price |-> Price4(r.val[5]),
                 match_number |-> r.val[6]])
    IN  Only({ done(r) : r \in {Fields(i, <<"be_u64", "noncross_side", "be_u32", "stock", "be_u32",
                         "be_u64">>, <<>>)} })

parse_ipo_quoting_period(i) ==
    LET done(r) ==
        IF r.t # "Ok" THEN r
        ELSE Ok(r.rest,
                [stock |-> r.val[1], release_time |-> r.val[2],
                 release_qualifier |-> r.val[3], price |-> Price4(r.val[4])])
    IN  Only({ done(r) : r \in {Fields(i, <<"stock", "be_u32", "release_qualifier", "be_u32">>, <<>>)} })

\* map(p, Body::Variant)(input)?
MapBody(r, variant) == IF r.t # "Ok" THEN r ELSE Ok(r.rest, Body(variant, r.val))

\* The arms of parse_message's match that are written inline.
InlineBody(i, variant, layout, names, wrap) ==
    LET done(r) ==
        IF r.t # "Ok" THEN r
        ELSE Ok(r.rest, Body(variant,
                 [k \in 1..Len(names) |->
                     <<names[k], IF wrap[k] = "Price4" THEN Price4(r.val[k])
                                 ELSE IF wrap[k] = "Price8" THEN Price8(r.val[k])
                                 ELSE r.val[k]>>]))
    IN  Only({ done(r) : r \in {Fields(i, layout, <<>>)} })

\* match tag { ... } of parse_message, on the input left after the header.
parse_body(tag, i) ==
    CASE tag = Ord("A") -> MapBody(parse_add_order(i, FALSE), "AddOrder")
      [] tag = Ord("B") -> InlineBody(i, "BrokenTrade", <<"be_u64">>,
                                      <<"match_number">>, <<"-">>)
      [] tag = Ord("C") -> InlineBody(i, "OrderExecutedWithPrice",
                                      <<"be_u64", "be_u32", "be_u64", "char2bool", "be_u32">>,
                                      <<"reference", "executed", "match_number",
                                        "printable", "price">>,
                                      <<"-", "-", "-", "-", "Price4">>)
      [] tag = Ord("D") -> InlineBody(i, "DeleteOrder", <<"be_u64">>,
                                      <<"reference">>, <<"-">>)
      [] tag = Ord("E") -> InlineBody(i, "OrderExecuted",
                                      <<"be_u64", "be_u32", "be_u64">>,
                                      <<"reference", "executed", "match_number">>,
                                      <<"-", "-", "-">>)
      [] tag = Ord("F") -> MapBody(parse_add_order(i, TRUE), "AddOrder")
      [] tag = Ord("H") -> parse_trading_action(i)
      [] tag = Ord("I") -> MapBody(parse_imbalance_indicator(i), "Imbalance")
      [] tag = Ord("J") -> InlineBody(i, "LULDAuctionCollar",
                                      <<"stock", "be_u32", "be_u32", "be_u32", "be_u32">>,
                                      <<"stock", "ref_price", "upper_price",
                                        "lower_price", "extension">>,
                                      <<"-", "Price4", "Price4", "Price4", "-">>)
      [] tag = Ord("K") -> MapBody(parse_ipo_quoting_period(i), "IpoQuotingPeriod")
      [] tag = Ord("L") -> MapBody(parse_participant_position(i), "ParticipantPosition")
      [] tag = Ord("N") -> MapBody(parse_retail_price_improvement_indicator(i),
                                   "RetailPriceImprovementIndicator")
      [] tag = Ord("P") -> MapBody(parse_noncross_trade(i), "NonCrossTrade")
      [] tag = Ord("Q") -> MapBody(parse_cross_trade(i), "CrossTrade")
      [] tag = Ord("R") -> MapBody(parse_stock_directory(i), "StockDirectory")
      [] tag = Ord("S") -> parse_system_event(i)
      [] tag = Ord("U") -> MapBody(parse_replace_order(i), "ReplaceOrder")
      [] tag = Ord("V") -> InlineBody(i, "MwcbDeclineLevel",
                                      <<"be_u64", "be_u64", "be_u64">>,
                                      <<"level1", "level2", "level3">>,
                                      <<"Price8", "Price8", "Price8">>)
      [] tag = Ord("W") -> MapBody(AltChar(i, LevelBreachedTable), "Breach")
      [] tag = Ord("X") -> InlineBody(i, "OrderCancelled", <<"be_u64", "be_u32">>,
                                      <<"reference", "cancelled">>, <<"-", "-">>)
      [] tag = Ord("Y") -> parse_reg_sho_restriction(i)
      [] OTHER          -> Panic("unreachable")

\* The length prefix (h.val[1]) is read and not used.
parse_message(input) ==
    LET message(h, b) ==
            IF b.t # "Ok" THEN b
            ELSE Ok(b.rest,
                    [tag |-> h.val[2], stock_locate |-> h.val[3],
                     tracking_number |-> h.val[4], timestamp |-> h.val[5],
                     body |-> b.val])
        body(h) ==
            IF h.t # "Ok" THEN h
            ELSE Only({ message(h, b) : b \in {parse_body(h.val[2], h.rest)} })
    IN  Only({ body(h) : h \in {Fields(input, <<"be_u16", "be_u8", "be_u16", "be_u16",
                                                "be_u48">>, <<>>)} })

(***************************************************************************)
(* The byte source (R: Read).  It holds Fill copies of one frame followed  *)
(* by the bytes of tail, and has delivered the first pos of them.  A read  *)
(* into a free tail of room bytes returns at most chunk bytes; with        *)
(* faults left it may instead fail, or return 0 before its end (a file     *)
(* still being written, a socket with nothing to deliver yet).             *)
(***************************************************************************)
\* tests::test_parse_one_message: a System Event frame, event code 'O'.
SystemEventFrame == <<0, 12, 83, 0, 0, 0, 0, 40, 106, 171, 59, 58, 153, 79>>

SrcLen(rdr) == rdr.fill * Len(SystemEventFrame) + Len(rdr.tail)

\* The byte at offset k (from 0) of the source's content.
SrcByte(rdr, k) ==
    IF k < rdr.fill * Len(SystemEventFrame)
    THEN SystemEventFrame[(k % Len(SystemEventFrame)) + 1]
    ELSE rdr.tail[k - rdr.fill * Len(SystemEventFrame) + 1]

MinInt(a, b) == IF a < b THEN a ELSE b

\* What the source can do on one read: deliver, fail, or return 0 early.
ReadChoices(rdr) ==
    {"data"} \cup (IF rdr.faults > 0 THEN {"io"} ELSE {})
             \cup (IF rdr.faults > 0 /\ rdr.pos < SrcLen(rdr) THEN {"zero"} ELSE {})

\* A reader that writes its whole chunk whatever the room it was given.
Read_IgnoresRoom(rdr, room, how) ==
    IF how # "data"
    THEN [ret |-> IF how = "io" THEN "Err" ELSE "Ok", n |-> 0, data |-> <<>>,
          rdr |-> [rdr EXCEPT !.faults = @ - 1]]
    ELSE LET n == MinInt(rdr.chunk, SrcLen(rdr) - rdr.pos)
         IN  [ret |-> "Ok", n |-> n,
              data |-> [k \in 1..n |-> SrcByte(rdr, rdr.pos + k - 1)],
              rdr |-> [rdr EXCEPT !.pos = @ + n]]

\* reader.read(&mut buf) with buf of room bytes: Ok(n) and the n bytes it
\* wrote to the front of buf, or Err.
Read(rdr, room, how) ==
    IF how = "io"
    THEN [ret |-> "Err", n |-> 0, data |-> <<>>, rdr |-> [rdr EXCEPT !.faults = @ - 1]]
    ELSE IF how = "zero"
    THEN [ret |-> "Ok", n |-> 0, data |-> <<>>, rdr |-> [rdr EXCEPT !.faults = @ - 1]]
    ELSE LET n == MinInt(rdr.chunk, MinInt(room, SrcLen(rdr) - rdr.pos))
         IN  [ret |-> "Ok", n |-> n,
              data |-> [k \in 1..n |-> SrcByte(rdr, rdr.pos + k - 1)],
              rdr |-> [rdr EXCEPT !.pos = @ + n]]

\* The array a after data was written at index at (at <= the highest index
\* written so far + 1).
Write(a, at, data) ==
    SubSeq(a, 1, at) \o data \o SubSeq(a, at + Len(data) + 1, Len(a))

(***************************************************************************)
(* MessageStream                                                           *)
(***************************************************************************)
\* A buffer shorter than a Stock Directory frame.
BUFSIZE_TooSmall == 8 * 5

BUFSIZE == 8 * 1024

\* MessageStream::new
new(reader) ==
    [reader |-> reader,
     buffer |-> <<>>,
     bufstart |-> 0, bufend |-> 0, bytes_read |-> 0, read_calls |-> 0,
     message_ct |-> 0, in_error_state |-> FALSE]

\* What one fetch did, for the properties that speak of it.
NoFetch == [called |-> FALSE, compacted |-> FALSE, start0 |-> 0, end0 |-> 0,
            start1 |-> 0, end1 |-> 0, read |-> FALSE, ret |-> "-", n |-> 0]

\* A compaction that moves the cursors and forgets to copy the remnant.
Compact_NoCopy(self) ==
    [self EXCEPT !.bufstart = 0, !.bufend = BUFSIZE - self.bufstart]

\* A compaction that takes the remnant off bytes_read, as if the bytes it
\* moves were to be read again.
Compact_Uncounts(self) ==
    [self EXCEPT !.buffer = SubSeq(self.buffer, self.bufstart + 1, BUFSIZE)
                                \o SubSeq(self.buffer, BUFSIZE - self.bufstart + 1,
                                          Len(self.buffer)),
                 !.bufstart = 0,
                 !.bufend = BUFSIZE - self.bufstart,
                 !.bytes_read = @ - (BUFSIZE - self.bufstart)]

\* A compaction that moves the remnant and leaves bufend at the buffer's end.
Compact_KeepsEnd(self) ==
    [self EXCEPT !.buffer = SubSeq(self.buffer, self.bufstart + 1, BUFSIZE)
                                \o SubSeq(self.buffer, BUFSIZE - self.bufstart + 1,
                                          Len(self.buffer)),
                 !.bufstart = 0]

\* A compaction that copies the remnant from one byte too far.
Compact_OffByOne(self) ==
    [self EXCEPT !.buffer = SubSeq(self.buffer, self.bufstart + 2, BUFSIZE) \o <<0>>
                                \o SubSeq(self.buffer, BUFSIZE - self.bufstart + 1,
                                          Len(self.buffer)),
                 !.bufstart = 0,
                 !.bufend = BUFSIZE - self.bufstart]

\* The compaction of fetch_more_bytes: split_at_mut(bufstart), then
\* left[..right.len()].copy_from_slice(right).
Compact(self) ==
    LET len == BUFSIZE - self.bufstart
    IN  [self EXCEPT !.buffer = SubSeq(self.buffer, self.bufstart + 1, BUFSIZE)
                                    \o SubSeq(self.buffer, len + 1, Len(self.buffer)),
                     !.bufstart = 0,
                     !.bufend = len]

\* fetch_more_bytes: [self, ret, n, info]; ret is "Ok" with n = the count,
\* "Err" (the reader's error) or "Panic" (an assertion failed).
fetch_more_bytes(self, how) ==
    LET s1 == [self EXCEPT !.read_calls = @ + 1]
        full == s1.bufend = BUFSIZE
        asserts == s1.bufstart > BUFSIZE \div 2 /\ BUFSIZE - s1.bufstart < 100
        s2 == IF full THEN Compact(s1) ELSE s1
        rd == Read(s2.reader, BUFSIZE - s2.bufend, how)
        s3 == [s2 EXCEPT !.reader = rd.rdr,
                         !.buffer = Write(s2.buffer, s2.bufend, rd.data)]
        info == [called |-> TRUE, compacted |-> full,
                 start0 |-> s1.bufstart, end0 |-> s1.bufend,
                 start1 |-> s2.bufstart, end1 |-> s2.bufend,
                 read |-> TRUE, ret |-> rd.ret, n |-> rd.n]
    IN  IF full /\ ~asserts
        THEN [self |-> s1, ret |-> "Panic", n |-> 0,
              info |-> [info EXCEPT !.compacted = FALSE, !.read = FALSE, !.ret = "Panic",
                                    !.start1 = s1.bufstart, !.end1 = s1.bufend, !.n = 0]]
        ELSE [self |-> s3, ret |-> rd.ret, n |-> rd.n, info |-> info]

\* Option<Result<Message>>, and the two ways a call ends without one.
\* err is the error's variant and text, context the bytes its text quotes.
NoMsg == <<>>
SomeOk(msg)  == [kind |-> "Ok",    msg |-> msg,   err |-> "-", context |-> <<>>]
SomeErr(e, ctx) == [kind |-> "Err", msg |-> NoMsg, err |-> e,  context |-> ctx]
NoneResult   == [kind |-> "None",  msg |-> NoMsg, err |-> "-", context |-> <<>>]
PanicResult(why) == [kind |-> "Panic", msg |-> NoMsg, err |-> why, context |-> <<>>]
NoResult     == [kind |-> "-",     msg |-> NoMsg, err |-> "-", context |-> <<>>]

\* &self.buffer[self.bufstart..self.bufstart + 20]
ContextLen == 20
Context(self) ==
    [k \in 1..ContextLen |-> IF self.bufstart + k <= Len(self.buffer)
                             THEN self.buffer[self.bufstart + k] ELSE 0]

\* What one activation of next leaves: the stream, what it returns (out),
\* or that it goes on in the call self.next() (again); info is what its
\* fetch did and decode what its decode attempt reported.
Returns(self, out, info) ==
    [self |-> self, out |-> out, again |-> FALSE, info |-> info, decode |-> "-"]

\* A latch that also steps over the first byte of the frame that failed.
Latch_SkipsByte(self) ==
    [self EXCEPT !.in_error_state = TRUE,
                 !.bufstart = IF @ < self.bufend THEN @ + 1 ELSE @]

\* A latch that is never set.
Latch_Forgets(self) == self

\* self.in_error_state = true (lines 170, 192, 205)
Latch(self) == [self EXCEPT !.in_error_state = TRUE]

\* A stream that takes every end of input as the middle of a frame.
PartWay_Always(self) == TRUE

\* Line 186 negated: the unread window is not empty.
PartWay(self) == self.bufstart # self.bufend

\* A stream that reports the Eof of a non-streaming primitive like any
\* other decode error.
IsReported_EofToo(code) == TRUE

\* Line 169: e.code != ErrorKind::Eof
IsReported(code) == code # "Eof"

\* The match on fetch_more_bytes() of next (lines 183-209); again is the
\* call self.next() of line 199.
AfterFetch(self, how) ==
    LET arms(f, s) ==
            IF f.ret = "Panic" THEN Returns(s, PanicResult("assert"), f.info)
            ELSE IF f.ret = "Ok" /\ f.n = 0
            THEN IF ~PartWay(s) THEN Returns(s, NoneResult, f.info)
                 ELSE IF s.in_error_state THEN Returns(s, NoneResult, f.info)
                 ELSE Returns(Latch(s), SomeErr("Parse(Unexpected EOF)", <<>>), f.info)
            ELSE IF f.ret = "Ok"
            THEN [self |-> [s EXCEPT !.bufend = @ + f.n, !.bytes_read = @ + f.n],
                  out |-> NoResult, again |-> TRUE, info |-> f.info, decode |-> "-"]
            ELSE IF s.in_error_state THEN Returns(s, NoneResult, f.info)
                 ELSE Returns(Latch(s), SomeErr("Io", <<>>), f.info)
        matched(f) == arms(f, f.self)
    IN  Only({ matched(f) : f \in {fetch_more_bytes(self, how)} })

\* One activation of Iterator::next: the decode attempt on the unread window
\* and, when it needs more bytes, the fetch and what follows it.  how is what
\* the byte source does if it is read.
next(self, how) ==
    LET buf == Slice(self.buffer, self.bufstart, self.bufend)
        arms(r) ==
            IF r.t = "Ok"
            THEN Returns([self EXCEPT !.bufstart = self.bufend - SLen(r.rest),
                                      !.message_ct = @ + 1,
                                      !.in_error_state = FALSE],
                         SomeOk(r.val), NoFetch)
            ELSE IF r.t = "Panic" THEN Returns(self, PanicResult(r.code), NoFetch)
            ELSE IF r.t = "Error" /\ self.in_error_state
            THEN Returns(self, NoneResult, NoFetch)
            ELSE IF r.t = "Error" /\ IsReported(r.code)
            THEN IF self.bufstart + ContextLen > BUFSIZE
                 THEN Returns(Latch(self), PanicResult("slice"), NoFetch)
                 ELSE Returns(Latch(self),
                              SomeErr("Parse(" \o r.code \o ")", Context(self)), NoFetch)
            ELSE AfterFetch(self, how)
        matched(r) == [arms(r) EXCEPT !.decode = IF r.t = "Error" THEN r.code ELSE r.t]
    IN  Only({ matched(r) : r \in {parse_message(buf)} })

(***************************************************************************)
(* Wire frames the byte sources are made of                                *)
(***************************************************************************)
\* [2 bytes length = 11 + body][tag][stock_locate][tracking_number][timestamp][body]
Frame(tag, body) ==
    <<0, 11 + Len(body), tag>> \o <<0, 1, 0, 2>> \o <<0, 0, 0, 0, 0, 7>> \o body

Sp == Ord(" ")
\* The bodies of tests::stock_directory, market_participant_position and add_order.
StockDirectoryBody ==
    <<65, Sp, Sp, Sp, Sp, Sp, Sp, Sp, 78, Sp, 0, 0, 0, 100, 78, 67, 90, Sp, 80, 78,
      Sp, 49, 78, 0, 0, 0, 0, 78>>
ParticipantPositionBody ==
    <<65, 68, 65, 77, 66, 66, 82, 89, Sp, Sp, Sp, Sp, 89, 78, 65>>
AddOrderBody ==
    <<0, 0, 0, 0, 0, 0, 5, 132, 66, 0, 0, 0, 100, 90, 88, 90, 90, 84, Sp, Sp, Sp,
      0, 0, 39, 16>>
\* The bodies of tests::test_imbalance, test_cross_trade,
\* test_retail_price_improvement_indicator, test_noncross_trade, test_ipo_release.
ImbalanceBody ==
    <<0, 0, 0, 0, 0, 0, 0, 0, 0, 0, 0, 0, 0, 0, 0, 0, 79, 72, 73, 66, 66, Sp, Sp, Sp, Sp,
      0, 0, 0, 0, 0, 0, 0, 0, 0, 0, 0, 0, 67, Sp>>
CrossTradeBody ==
    <<0, 0, 0, 0, 0, 0, 0, 0, 69, 83, 83, 65, Sp, Sp, Sp, Sp, 0, 0,
      0, 0, 0, 0, 0, 0, 0, 0, 3, 192, 67>>
RetailPriceImprovementBody == <<69, 83, 83, 65, Sp, Sp, Sp, Sp, 78>>
NonCrossTradeBody ==
    <<0, 0, 0, 0, 0, 0, 0, 0, 66, 0, 0, 11, 184, 78, 85, 71, 84, Sp,
      Sp, Sp, Sp, 0, 1, 147, 232, 0, 0, 0, 0, 0, 0, 65, 127>>
IpoReleaseBody == <<90, 87, 90, 90, 84, Sp, Sp, Sp, 0, 0, 137, 28, 65, 0, 1, 134, 160>>
\* stock "ZXZZT   ", state, reserved byte, reason "T1  "
TradingActionBody(state) ==
    <<90, 88, 90, 90, 84, Sp, Sp, Sp, state, Sp, 84, 49, Sp, Sp>>

\* The frame a template name stands for.  Names ending in ! carry an
\* out-of-table enumeration code, in ? an unknown tag, in x a text field that
\* is not UTF-8, in + a length prefix one more than the frame's size.
FrameOf(id) ==
    CASE id = "S"  -> SystemEventFrame
      [] id = "R"  -> Frame(Ord("R"), StockDirectoryBody)
      [] id = "L"  -> Frame(Ord("L"), ParticipantPositionBody)
      [] id = "A"  -> Frame(Ord("A"), AddOrderBody)
      [] id = "F"  -> Frame(Ord("F"), AddOrderBody \o <<16, 16, 16, 16>>)
      [] id = "H"  -> Frame(Ord("H"), TradingActionBody(Ord("T")))
      [] id = "I"  -> Frame(Ord("I"), ImbalanceBody)
      [] id = "Q"  -> Frame(Ord("Q"), CrossTradeBody)
      [] id = "N"  -> Frame(Ord("N"), RetailPriceImprovementBody)
      [] id = "P"  -> Frame(Ord("P"), NonCrossTradeBody)
      [] id = "K"  -> Frame(Ord("K"), IpoReleaseBody)
      [] id = "S+" -> [SystemEventFrame EXCEPT ![2] = @ + 1]
      [] id = "S!" -> Frame(Ord("S"), <<Ord("Z")>>)
      [] id = "H!" -> Frame(Ord("H"), TradingActionBody(Ord("Z")))
      [] id = "R!" -> Frame(Ord("R"), [StockDirectoryBody EXCEPT ![16] = Ord("Z")])
      [] id = "Z?" -> Frame(Ord("Z"), <<Ord("O")>>)
      [] id = "Hx" -> Frame(Ord("H"), [TradingActionBody(Ord("T")) EXCEPT ![3] = 255])
      [] id = "Lx" -> Frame(Ord("L"), [ParticipantPositionBody EXCEPT ![2] = 192])
      [] id = "Hr" -> Frame(Ord("H"), [TradingActionBody(Ord("T")) EXCEPT ![14] = 128])

WellFormed == {"S", "R", "L", "A", "F", "H"}
Malformed  == {"S!", "H!", "R!", "Z?", "Hx", "Lx", "Hr"}
\* Frames of the other body decoders that have a test, used as last frames.
MoreWellFormed == {"I", "Q", "N", "P", "K"}
\* Frames whose length prefix is not the size of their layout.
Mislabelled == {"S+"}

RECURSIVE Concat(_)
Concat(ids) == IF ids = <<>> THEN <<>> ELSE FrameOf(Head(ids)) \o Concat(Tail(ids))

\* The bytes of the frames ids without the last cut bytes.
TailBytes(ids, cut) == SubSeq(Concat(ids), 1, Len(Concat(ids)) - cut)

(***************************************************************************)
(* Bounds of the model                                                     *)
(***************************************************************************)
\* Frames in a short byte source.
MaxFrames == 2
\* Reads of one byte source that fail or return 0 early.
MaxFaults == 1
\* Calls returning None after which the consumer stops calling.
MaxNones == 2
\* Copies of SystemEventFrame at the head of a long byte source: Fill of
\* them end 16 bytes before the buffer's end, Fill + 1 of them 2 bytes before.
Fill == 584
\* Bytes per read of a source that delivers neither byte by byte nor all it can.
SmallChunk == 13

(***************************************************************************)
(* The inputs: what the byte source holds and how it delivers it           *)
(***************************************************************************)
Templates == WellFormed \cup Malformed \cup MoreWellFormed \cup Mislabelled

\* Up to MaxFrames frames, all but the last well-formed.
ShortSeqs ==
    {<<>>} \cup UNION {{p \o <<t>> : p \in [1..(n - 1) -> WellFormed], t \in Templates}
                       : n \in 1..MaxFrames}

\* A malformed frame with a well-formed one behind it.
AfterBad == {<<m, "S">> : m \in Malformed}

Input(fill, ids, cut, chunk, faults) ==
    [fill |-> fill, ids |-> ids, cut |-> cut, chunk |-> chunk, faults |-> faults]

ShortInputs ==
    {Input(0, ids, 0, chunk, 0) : ids \in ShortSeqs \cup AfterBad, chunk \in {1, BUFSIZE}}
    \cup {Input(0, ids, 0, BUFSIZE, MaxFaults) : ids \in ShortSeqs \cup AfterBad}

\* Sources that end inside their last frame, at every offset of it.
TruncatedInputs ==
    UNION {{Input(0, p \o <<w>>, cut, chunk, 0) :
               cut \in 1..(Len(FrameOf(w)) - 1), chunk \in {1, BUFSIZE}}
           : p \in {<<>>, <<"S">>}, w \in WellFormed}

\* Sources longer than the buffer.
LongInputs ==
    {Input(fill, ids, 0, chunk, 0) :
        fill \in {Fill, Fill + 1}, ids \in {<<"R", "S">>, <<"S!", "S">>},
        chunk \in {SmallChunk, BUFSIZE}}
    \cup {Input(Fill, <<"R", "S">>, 0, 1, 0)}

Inputs == ShortInputs \cup TruncatedInputs \cup LongInputs

ReaderOf(in) ==
    [fill |-> in.fill, tail |-> TailBytes(in.ids, in.cut), pos |-> 0,
     chunk |-> in.chunk, faults |-> in.faults]

(***************************************************************************)
(* State                                                                   *)
(***************************************************************************)
VARIABLES
    input,      \* what the byte source was built from (never changes)
    stream,     \* the MessageStream
    pending,    \* a call of next is inside its self.next() recursion
    last,       \* what the last finished call of next returned
    fetch,      \* what the last activation's fetch_more_bytes did
    hist,       \* counts over the finished calls
    ref,        \* a second MessageStream over the same bytes, read all at once
    unit        \* a function of the crate called on its own: its argument and result

vars == <<input, stream, pending, last, fetch, hist, ref, unit>>

\* No function is being called on its own.
NoUnit == [fn |-> "-", arg |-> <<>>, done |-> FALSE, out |-> <<>>]

NoHist == [calls |-> 0, oks |-> 0, errs |-> 0, nones |-> 0,
           firstErr |-> 0, firstNone |-> 0, ioErr |-> 0, ioReads |-> 0,
           faults |-> 0, entryLatch |-> FALSE, entryErrs |-> 0,
           entryStart |-> 0, entryReads |-> 0, compactions |-> 0, eofRefills |-> 0,
           consumed |-> 0]

InitFor(in) ==
    /\ input = in
    /\ stream = new(ReaderOf(in))
    /\ pending = FALSE
    /\ last = NoResult
    /\ fetch = NoFetch
    /\ hist = NoHist
    /\ ref = [ms |-> new(ReaderOf([in EXCEPT !.chunk = BUFSIZE, !.faults = 0])),
              last |-> NoResult]

Init == unit = NoUnit /\ \E in \in Inputs : InitFor(in)

\* A whole call of next on the reference stream: its reads deliver all they can.
RECURSIVE RunCall(_)
RunCall(ms) ==
    Only({ IF r.again THEN RunCall(r.self) ELSE r : r \in {next(ms, "data")} })

RefStep(rf) ==
    IF rf.last.kind = "Panic" THEN rf
    ELSE Only({ [ms |-> r.self, last |-> r.out] : r \in {RunCall(rf.ms)} })

\* The counts after a call that returned out.
Count(h, out, self) ==
    LET n == h.calls + 1
    IN  [h EXCEPT !.calls = n,
                  !.oks = @ + (IF out.kind = "Ok" THEN 1 ELSE 0),
                  !.errs = @ + (IF out.kind = "Err" THEN 1 ELSE 0),
                  !.nones = @ + (IF out.kind = "None" THEN 1 ELSE 0),
                  !.firstErr = IF @ = 0 /\ out.kind = "Err" THEN n ELSE @,
                  !.firstNone = IF @ = 0 /\ out.kind = "None" THEN n ELSE @,
                  !.ioErr = IF @ = 0 /\ out.kind = "Err" /\ out.err = "Io" THEN n ELSE @,
                  !.ioReads = IF h.ioErr = 0 /\ out.kind = "Err" /\ out.err = "Io"
                              THEN self.read_calls ELSE @]

\* The counts after an activation r: the reads that failed or returned 0
\* early, the compactions, the refills asked for by a decode attempt that
\* reported Eof, and the bytes the last successful decode consumed.
Seen(h, r) ==
    [h EXCEPT !.faults = stream.reader.faults - r.self.reader.faults + @,
              !.compactions = @ + (IF r.info.compacted THEN 1 ELSE 0),
              !.eofRefills = @ + (IF r.decode = "Eof" /\ r.again THEN 1 ELSE 0),
              !.consumed = IF r.out.kind = "Ok" THEN r.self.bufstart - stream.bufstart
                           ELSE @]

\* One activation r of next, as the state sees it.
Activate(r, h) ==
    /\ stream' = r.self
    /\ fetch' = r.info
    /\ pending' = r.again
    /\ input' = input
    /\ unit' = unit
    /\ IF r.again
       THEN /\ last' = last
            /\ hist' = Seen(h, r)
            /\ ref' = ref
       ELSE /\ last' = r.out
            /\ hist' = Count(Seen(h, r), r.out, r.self)
            /\ ref' = RefStep(ref)

\* The consumer calls stream.next().
ConsumerNext ==
    /\ ~pending
    /\ last.kind # "Panic"
    /\ hist.nones < MaxNones
    /\ \E how \in ReadChoices(stream.reader) :
          \E r \in {next(stream, how)} :
             Activate(r, [hist EXCEPT !.entryLatch = stream.in_error_state,
                                      !.entryErrs = hist.errs,
                                      !.entryStart = stream.bufstart,
                                      !.entryReads = stream.read_calls])

\* The call self.next() of line 199, after a read that delivered bytes.
RecursiveNext ==
    /\ pending
    /\ \E how \in ReadChoices(stream.reader) :
          \E r \in {next(stream, how)} : Activate(r, hist)

Next == ConsumerNext \/ RecursiveNext

Spec == Init /\ [][Next]_vars

\* The steps the crate's own loop is bound to take.  The `for msg in stream`
\* of the usage example calls next again after each Some(Ok(msg)); it ends at
\* the first None, and at the first Some(Err(_)) its msg.unwrap() panics, so
\* after these no further call is due (a caller may still make one: Next
\* allows it).  A call that has begun goes on to its return.
LoopNext ==
    \/ last.kind \in {"-", "Ok"} /\ ConsumerNext
    \/ RecursiveNext

SpecFair == Spec /\ WF_vars(LoopNext)

(***************************************************************************)
(* What the properties speak of                                            *)
(***************************************************************************)
\* The source never fails and returns 0 only at its end.
FaultFree == input.faults = 0

\* The frames of the source, in wire order.
FrameCount == input.fill + Len(input.ids)
NameAt(j) == IF j <= input.fill THEN "S" ELSE input.ids[j - input.fill]
FrameAt(j) == FrameOf(NameAt(j))

\* A fault-free source of well-formed frames ending at a frame boundary.
WellFormedSource ==
    /\ FaultFree
    /\ input.cut = 0
    /\ \A k \in 1..Len(input.ids) : input.ids[k] \in WellFormed

\* A fault-free source whose frame b is its first malformed one, a frame
\* named in bad, and whose last finished call is the one that reaches it.
ReachedBad(bad) ==
    /\ FaultFree
    /\ input.cut = 0
    /\ \E b \in 1..Len(input.ids) :
          /\ input.ids[b] \in bad
          /\ \A k \in 1..(b - 1) : input.ids[k] \in WellFormed
          /\ hist.calls = input.fill + b

(***************************************************************************)
(* C1: at most one Err                                                     *)
(***************************************************************************)
\* C1: once a call of next has yielded Some(Err(_)), of any kind and for any
\* behaviour of the byte source, every later call yields None, so that at
\* most one Err and no later Ok is ever produced.
C1_ErrThenOnlyNone ==
    /\ hist.errs <= 1
    /\ (hist.firstErr # 0 /\ hist.calls > hist.firstErr) => last.kind = "None"

(***************************************************************************)
(* C2: the results do not depend on how the source chunks its bytes        *)
(***************************************************************************)
\* C2: for a source of well-formed frames, however many bytes (1 or more)
\* each read delivers, every call of next returns what the same call returns
\* when each read fills the whole free tail: a frame split across reads, at
\* any offset, is refilled and retried, never reported and never decoded
\* differently.
C2_ChunkingEquivalence ==
    WellFormedSource => last = ref.last

\* A source longer than the buffer, delivered byte by byte: the buffer was
\* compacted, a decode attempt that stopped just before the Stock Directory
\* issue classification was refilled, and the Stock Directory frame came out
\* as it does with whole reads.
C2_SplitFrameDecoded ==
    /\ WellFormedSource
    /\ input.fill = Fill
    /\ input.chunk = 1
    /\ hist.compactions > 0
    /\ hist.eofRefills > 0
    /\ last.kind = "Ok"
    /\ last.msg.tag = Ord("R")
    /\ last = ref.last

(***************************************************************************)
(* C3: k frames, k messages, then None                                     *)
(***************************************************************************)
\* C3: for a source of k >= 1 well-formed frames ending at a frame boundary,
\* call j <= k of next returns Some(Ok(m)) with m the decode of the j-th
\* frame on the wire, every later call returns None, and no Err is yielded.
C3_FramesInOrder ==
    (WellFormedSource /\ FrameCount >= 1) =>
        /\ hist.errs = 0
        /\ hist.oks = MinInt(hist.calls, FrameCount)
        /\ (hist.calls >= 1 /\ hist.calls <= FrameCount) =>
               last = SomeOk(parse_message(SliceOf(FrameAt(hist.calls))).val)
        /\ hist.calls > FrameCount => last.kind = "None"

\* Two different frames were decoded and the call after them returned None.
C3_AllDecodedThenNone ==
    /\ WellFormedSource
    /\ FrameCount = 2
    /\ NameAt(1) # NameAt(2)
    /\ hist.calls = 3
    /\ hist.oks = 2
    /\ last.kind = "None"

(***************************************************************************)
(* C4: unknown tag                                                         *)
(***************************************************************************)
\* C4: when the tag byte of a frame is none of the catalog tags and its 13
\* header bytes are buffered, the call of next that reaches the frame returns
\* Some(Err(_)) and latches the stream; it does not panic.
C4_UnknownTagIsErr ==
    ReachedBad({"Z?"}) => (last.kind = "Err" /\ stream.in_error_state)

(***************************************************************************)
(* C5: text fields that are not UTF-8                                      *)
(***************************************************************************)
\* C5: when the bytes of a fixed-width text field (8-byte stock, 4-byte mpid,
\* 4-byte trading-action reason) are not valid UTF-8, the call of next that
\* reaches the frame returns Some(Err(_)); it does not panic.
C5_BadTextIsErr ==
    ReachedBad({"Hx", "Lx", "Hr"}) => last.kind = "Err"

(***************************************************************************)
(* C6: the source ends inside a frame                                      *)
(***************************************************************************)
\* A fault-free source of well-formed frames that ends inside its last one.
TruncatedSource ==
    /\ FaultFree
    /\ input.cut > 0
    /\ \A k \in 1..Len(input.ids) : input.ids[k] \in WellFormed

\* C6: for a source that ends while the unread window holds a non-empty,
\* incomplete prefix of a frame, the call of next that reaches the prefix
\* returns Some(Err(Parse("Unexpected EOF"))), every later call returns None,
\* that Err is the only one, and the truncated frame yields no Ok.
C6_UnexpectedEofOnce ==
    TruncatedSource =>
        /\ hist.oks = MinInt(hist.calls, FrameCount - 1)
        /\ hist.errs = (IF hist.calls >= FrameCount THEN 1 ELSE 0)
        /\ hist.calls = FrameCount => last = SomeErr("Parse(Unexpected EOF)", <<>>)
        /\ hist.calls > FrameCount => last.kind = "None"

\* A System Event frame and a Stock Directory frame cut just before its
\* issue classification: one Ok, the Err, then None.
C6_CutBeforeClassification ==
    /\ TruncatedSource
    /\ input.ids = <<"S", "R">>
    /\ Len(FrameOf("R")) - input.cut = 28
    /\ hist.firstErr = 2
    /\ hist.calls = 3
    /\ last.kind = "None"

(***************************************************************************)
(* C7: the source ends at a frame boundary                                 *)
(***************************************************************************)
\* C7: when a read returns 0 while the unread window is empty, the call of
\* next returns None, yields no Err and leaves the latch as it was; a stream
\* over an empty source yields no message and no error.
C7_CleanEnd ==
    /\ (~pending /\ fetch.read /\ fetch.ret = "Ok" /\ fetch.n = 0
            /\ fetch.start1 = fetch.end1) =>
          /\ last.kind = "None"
          /\ hist.errs = hist.entryErrs
          /\ stream.in_error_state = hist.entryLatch
    /\ (FaultFree /\ FrameCount = 0 /\ hist.calls >= 1) =>
          /\ last.kind = "None"
          /\ hist.oks = 0
          /\ hist.errs = 0
          /\ ~stream.in_error_state

\* After two decoded frames a read returned 0 on the empty window and the
\* call returned None with the latch clear.
C7_ZeroReadAtBoundary ==
    /\ ~pending
    /\ fetch.read /\ fetch.ret = "Ok" /\ fetch.n = 0
    /\ fetch.start1 = fetch.end1
    /\ hist.oks = 2
    /\ last.kind = "None"
    /\ ~stream.in_error_state

(***************************************************************************)
(* C8: an I/O failure is fatal                                             *)
(***************************************************************************)
\* C8: after the call of next that yielded Some(Err(Io(e))), no later call
\* reads the byte source again and no later call yields a message.
C8_IoErrIsFatal ==
    hist.ioErr # 0 =>
        /\ stream.read_calls = hist.ioReads
        /\ hist.calls > hist.ioErr => last.kind # "Ok"

(***************************************************************************)
(* C9: None is terminal                                                    *)
(***************************************************************************)
\* C9: once a call of next has returned None, every later call returns None,
\* whatever the byte source does on later reads.
C9_NoneIsTerminal ==
    (hist.firstNone # 0 /\ hist.calls > hist.firstNone) => last.kind = "None"

(***************************************************************************)
(* C10: enumeration codes outside the table                                *)
(***************************************************************************)
\* C10: a frame whose enumeration field (event code, trading state, issue
\* classification) holds a code outside the decoder's table is rejected:
\* the call of next that reaches it returns Some(Err(Parse(_))) and no value
\* is decoded for it.
C10_OutOfTableIsParseErr ==
    ReachedBad({"S!", "H!", "R!"}) =>
        (last.kind = "Err" /\ last.err \in {"Parse(Char)", "Parse(MapOpt)"})

(***************************************************************************)
(* C11: a decoded frame is consumed whole                                  *)
(***************************************************************************)
\* A call of next has just returned Some(Ok(_)).
JustDecoded == ~pending /\ last.kind = "Ok"

\* The bytes the last successful decode consumed, and 2 + N for the N of
\* their length prefix.
ConsumedBytes ==
    SubSeq(stream.buffer, stream.bufstart - hist.consumed + 1, stream.bufstart)
DeclaredCount == 2 + ConsumedBytes[1] * 256 + ConsumedBytes[2]

\* C11 (as amended): the decoder consumes a frame by the fixed layout of its
\* tag and never looks at the length prefix.  The bytes a successful decode
\* consumes are exactly the next frame on the wire, none left and none of
\* the following frame taken, and they number 2 + N whenever the frame's
\* prefix N is the size of its layout.
C11_ConsumesByLayout ==
    JustDecoded =>
        /\ ConsumedBytes = FrameAt(hist.oks)
        /\ NameAt(hist.oks) \notin Mislabelled => hist.consumed = DeclaredCount

\* C11 (as stated): for every frame next decodes successfully the bytes
\* consumed number 2 + N, N the value of the frame's length prefix.
C11_ConsumesDeclaredCount ==
    JustDecoded => hist.consumed = DeclaredCount

\* A Stock Directory frame was decoded from a window that also held the
\* frame behind it, and that frame is still unread.
C11_FrameConsumedAlone ==
    /\ JustDecoded
    /\ FaultFree
    /\ input.fill = 0
    /\ input.chunk = BUFSIZE
    /\ input.ids = <<"R", "I">>
    /\ hist.oks = 1
    /\ hist.consumed = Len(FrameOf("R"))
    /\ stream.bufend - stream.bufstart = Len(FrameOf("I"))

(***************************************************************************)
(* C12: the consumer's loop ends                                           *)
(***************************************************************************)
\* The consumer the claim speaks of: one that ignores every Err, that is,
\* calls next again whenever a call has returned Some(Err(_)).
IgnoresErrs == [](~pending /\ last.kind = "Err" => <>(pending \/ last.kind # "Err"))

\* C12: on a finite byte source whose reads return 0 from its end on, every
\* call of next returns after finitely many reads and a consumer that keeps
\* calling next, ignoring every Err, reaches a call that returns None, for
\* well-formed, malformed and truncated streams alike.
C12_LoopReachesNone ==
    (FaultFree /\ IgnoresErrs)
        => (<>(last.kind = "None") /\ [](pending => <>(~pending)))

\* What holds instead: every call returns or panics, and the loop of such a
\* consumer ends in a call that returns None or in a panic.
C12_LoopReachesNoneOrPanics ==
    (FaultFree /\ IgnoresErrs)
        => (<>(last.kind \in {"None", "Panic"}) /\ [](pending => <>(~pending)))

\* Without a consumer that goes on after an Err the loop can end at the Err:
\* the usage example's loop does.
C12_ExampleLoopEnds ==
    FaultFree => <>(last.kind \in {"None", "Panic", "Err"})


(***************************************************************************)
(* Price4 and Price8 on their own                                          *)
(***************************************************************************)
\* The stream of a state in which a function is called on its own: a stream
\* over an empty source that nobody reads.
Idle == InitFor(Input(0, <<>>, 0, BUFSIZE, 0))

StreamUntouched == UNCHANGED <<input, stream, pending, last, fetch, hist, ref>>

\* Raw prices: 16-bit limbs that make the values of the crate's tests, the
\* powers of ten around the divisors, and the ends of the range.
PriceLimbs == {0, 1, 9, 10, 188, 9999, 10000, 19233, 34464, 65535}
Price8Limbs == {0, 28, 47926, 47378, 65535}

Prices ==
    {Price4(<<a, b>>) : a, b \in PriceLimbs}
    \cup {Price8(<<a, b, c, d>>) : a, b, c, d \in Price8Limbs}

PriceInit ==
    /\ Idle
    /\ \E p \in Prices : unit = [fn |-> "new", arg |-> p, done |-> FALSE, out |-> <<>>]

\* let d: Decimal = price.into();
Price4IntoDecimal ==
    /\ unit.fn = "new" /\ "Price4" \in DOMAIN unit.arg
    /\ unit' = [unit EXCEPT !.fn = "into", !.done = TRUE, !.out = DecimalOfPrice4(unit.arg)]
    /\ StreamUntouched

Price8IntoDecimal ==
    /\ unit.fn = "new" /\ "Price8" \in DOMAIN unit.arg
    /\ unit' = [unit EXCEPT !.fn = "into", !.done = TRUE, !.out = DecimalOfPrice8(unit.arg)]
    /\ StreamUntouched

\* price.raw()
PriceRaw ==
    /\ unit.fn = "new"
    /\ unit' = [unit EXCEPT !.fn = "raw", !.done = TRUE, !.out = raw(unit.arg)]
    /\ StreamUntouched

PriceNext == Price4IntoDecimal \/ Price8IntoDecimal \/ PriceRaw

SpecPrice == PriceInit /\ [][PriceNext]_vars

\* digits, as an integer, in n 16-bit limbs (what overflows n limbs is dropped).
RECURSIVE TimesTenPlus(_, _)
TimesTenPlus(limbs, c) ==
    IF limbs = <<>> THEN <<>>
    ELSE Append(TimesTenPlus(SubSeq(limbs, 1, Len(limbs) - 1),
                             (limbs[Len(limbs)] * 10 + c) \div 65536),
                (limbs[Len(limbs)] * 10 + c) % 65536)

RECURSIVE LimbsOfDigits(_, _)
LimbsOfDigits(ds, n) ==
    IF ds = <<>> THEN [k \in 1..n |-> 0]
    ELSE TimesTenPlus(LimbsOfDigits(SubSeq(ds, 1, Len(ds) - 1), n), ds[Len(ds)])

\* The decimal places of a price type, and the raw value its state was made of.
Places(p) == IF "Price4" \in DOMAIN p THEN 4 ELSE 8
RawLimbs(p) == IF "Price4" \in DOMAIN p THEN p.Price4 ELSE p.Price8

Converted == unit.fn = "into" /\ unit.done

\* d is exactly v / 10^k: d has at most k decimal places, and its digits moved
\* k places to the left are the integer v (so the digits before the point are
\* v div 10^k and the k after it are v mod 10^k).
ExactlyOver(d, v, k) ==
    /\ d.scale <= k
    /\ Len(d.digits) + (k - d.scale) <= 20
    /\ LimbsOfDigits(d.digits \o Zeros(k - d.scale), Len(v)) = v

\* C13: converting a Price4 of raw value v gives exactly v / 10,000 and a Price8
\* exactly v / 100,000,000, for every raw value, with nothing rounded;
\* Price4(12340001) gives 1234.0001, Price8(123400010002) gives 1234.00010002,
\* and raw() returns v.
C13_PriceIsExact ==
    /\ Converted => ExactlyOver(unit.out, RawLimbs(unit.arg), Places(unit.arg))
    /\ (Converted /\ unit.arg = Price4(<<188, 19233>>))
          => DecimalEq(unit.out, DecimalFromStr(<<1, 2, 3, 4>>, <<0, 0, 0, 1>>))
    /\ (Converted /\ unit.arg = Price8(<<0, 28, 47926, 47378>>))
          => DecimalEq(unit.out, DecimalFromStr(<<1, 2, 3, 4>>, <<0, 0, 0, 1, 0, 0, 0, 2>>))
    /\ (unit.fn = "raw" /\ unit.done) => unit.out = RawLimbs(unit.arg)

\* The largest Price8, 18446744073709551615, has been converted: its decimal has
\* all eight places (.09551615).
C13_LargestPrice8Converted ==
    /\ Converted
    /\ unit.arg = Price8(<<65535, 65535, 65535, 65535>>)
    /\ unit.out.scale = 8
    /\ Len(unit.out.digits) = 20

(***************************************************************************)
(* The buffer's cursors and its refill                                     *)
(***************************************************************************)
\* C14: in every reachable state, after any calls of next over any source,
\* 0 <= bufstart <= bufend <= BUFSIZE.
C14_CursorsInRange ==
    /\ 0 <= stream.bufstart
    /\ stream.bufstart <= stream.bufend
    /\ stream.bufend <= BUFSIZE

\* The stream has read to the very end of its buffer and decoded all whole
\* frames of it: the unread window is the two bytes before the end.
C14_WindowAtBufferEnd ==
    /\ stream.bufend = BUFSIZE
    /\ stream.bufstart = BUFSIZE - 2
    /\ stream.message_ct * Len(SystemEventFrame) = BUFSIZE - 2

\* C15: the two assertions of fetch_more_bytes never fail, for every source and
\* chunking: when a refill is asked for with bufend = BUFSIZE, then
\* bufstart > BUFSIZE / 2 and BUFSIZE - bufstart < 100.
C15_AssertionsHold ==
    /\ ~(last.kind = "Panic" /\ last.err = "assert")
    /\ fetch.ret # "Panic"
    /\ (fetch.called /\ fetch.end0 = BUFSIZE)
          => /\ fetch.start0 > BUFSIZE \div 2
             /\ BUFSIZE - fetch.start0 < 100
             /\ fetch.end0 - fetch.start0 <= fetch.start0

\* A refill was asked for with a full buffer whose window held the first two
\* bytes of a malformed frame (a System Event with an unknown event code).
C15_RefillOfFullBuffer ==
    /\ fetch.called /\ fetch.compacted
    /\ fetch.end0 = BUFSIZE /\ fetch.start0 = BUFSIZE - 2
    /\ input.ids[1] = "S!"

\* What a step that called fetch_more_bytes did to the stream.
RefillStep ==
    fetch'.called /\ fetch'.ret # "Panic" =>
        /\ fetch'.compacted <=> stream.bufend = BUFSIZE
        /\ fetch'.compacted =>
              /\ fetch'.start1 = 0
              /\ fetch'.end1 = stream.bufend - stream.bufstart
        /\ ~fetch'.compacted =>
              /\ fetch'.start1 = stream.bufstart
              /\ fetch'.end1 = stream.bufend
        /\ SubSeq(stream'.buffer, fetch'.start1 + 1, fetch'.end1)
              = SubSeq(stream.buffer, stream.bufstart + 1, stream.bufend)
        /\ stream'.bufstart = fetch'.start1
        /\ stream'.bufend = fetch'.end1 + fetch'.n
        /\ stream'.bytes_read = stream.bytes_read + fetch'.n
        /\ stream'.message_ct = stream.message_ct

\* C16: compaction happens only when a refill is asked for with
\* bufend = BUFSIZE; it moves the unread bytes to the front of the buffer with
\* the same content and order, sets bufstart = 0 and bufend = the old
\* bufend - bufstart, and leaves bytes_read and message_ct alone (bytes_read
\* then grows by what the read delivers); with bufend < BUFSIZE the cursors
\* and the unread bytes are unchanged before the read.
C16_CompactionMovesRemnant == [][RefillStep]_vars

\* A compaction has moved the first 16 bytes of a Stock Directory frame to the
\* front of the buffer, and the read after it delivered the other 25.
C16_RemnantAtFront ==
    /\ fetch.called /\ fetch.compacted
    /\ fetch.start0 = BUFSIZE - 16 /\ fetch.start1 = 0 /\ fetch.end1 = 16
    /\ stream.bufstart = 0 /\ stream.bufend >= Len(FrameOf("R"))
    /\ SubSeq(stream.buffer, 1, Len(FrameOf("R"))) = FrameOf("R")

(***************************************************************************)
(* The flag decoders on their own                                          *)
(***************************************************************************)
\* The offsets of the three tri-state flags in a Stock Directory body
\* (stock 8, market_category 1, financial_status 1, round_lot_size 4,
\* round_lots_only 1, issue_classification 1, issue_subtype 2, authenticity 1,
\* then short_sale_threshold, ipo_flag, luld_ref_price_tier, etp_flag).
ShortSaleAt == 19
IpoAt == 20
EtpAt == 22

FlagBytes == {Ord("Y"), Ord("N"), Sp, Ord("M"), Ord("Q"), 0}

\* tests::stock_directory's body with the three flags replaced.
StockDirectoryWith(ss, ipo, etp) ==
    [StockDirectoryBody EXCEPT ![ShortSaleAt + 1] = ss, ![IpoAt + 1] = ipo,
                               ![EtpAt + 1] = etp]

FlagInit ==
    /\ Idle
    /\ \/ \E f \in {"char2bool", "maybe_char2bool", "parse_etp_flag"} :
          \E b \in 0..255 : \E arg \in {<<b>>, <<b, Ord("Y")>>} :
             unit = [fn |-> f, arg |-> arg, done |-> FALSE, out |-> <<>>]
       \/ \E ss, ipo, etp \in FlagBytes :
             unit = [fn |-> "parse_stock_directory",
                     arg |-> StockDirectoryWith(ss, ipo, etp),
                     done |-> FALSE, out |-> <<>>]

Returned(r) == [unit EXCEPT !.done = TRUE, !.out = r]

ApplyChar2bool ==
    /\ unit.fn = "char2bool" /\ ~unit.done
    /\ unit' = Returned(char2bool(SliceOf(unit.arg)))
    /\ StreamUntouched

ApplyMaybeChar2bool ==
    /\ unit.fn = "maybe_char2bool" /\ ~unit.done
    /\ unit' = Returned(maybe_char2bool(SliceOf(unit.arg)))
    /\ StreamUntouched

ApplyParseEtpFlag ==
    /\ unit.fn = "parse_etp_flag" /\ ~unit.done
    /\ unit' = Returned(parse_etp_flag(SliceOf(unit.arg)))
    /\ StreamUntouched

ApplyParseStockDirectory ==
    /\ unit.fn = "parse_stock_directory" /\ ~unit.done
    /\ unit' = Returned(parse_stock_directory(SliceOf(unit.arg)))
    /\ StreamUntouched

FlagNext ==
    \/ ApplyChar2bool
    \/ ApplyMaybeChar2bool
    \/ ApplyParseEtpFlag
    \/ ApplyParseStockDirectory

SpecFlags == FlagInit /\ [][FlagNext]_vars

\* The decoder named f has returned.
Called(f) == unit.fn = f /\ unit.done

\* r is the success with value v that consumed one byte of the argument.
TookOne(r, v) ==
    r.t = "Ok" /\ r.val = v /\ SLen(r.rest) = Len(unit.arg) - 1

Rejected(r) == r.t = "Error" /\ r.code = "Char"

\* What a tri-state flag byte stands for; withM tells whether 'M' is taken.
TriState(r, b, withM) ==
    IF b = Ord("Y") THEN TookOne(r, Some(TRUE))
    ELSE IF b = Ord("N") THEN TookOne(r, Some(FALSE))
    ELSE IF b = Sp THEN TookOne(r, None)
    ELSE IF b = Ord("M") /\ withM THEN TookOne(r, Some(TRUE))
    ELSE Rejected(r)

FlagValue(b) ==
    IF b = Ord("Y") \/ b = Ord("M") THEN Some(TRUE)
    ELSE IF b = Ord("N") THEN Some(FALSE) ELSE None

\* C17: the tri-state decoders map 'Y' to Some(true), 'N' to Some(false), ' '
\* to None and fail on every other byte, except that the ETP flag takes 'M' as
\* Some(true); the short-sale-threshold and IPO flags of a Stock Directory
\* reject 'M'; the boolean decoder maps 'Y' to true, 'N' to false and fails on
\* all else, ' ' and 'M' included.
C17_FlagTables ==
    /\ Called("maybe_char2bool") => TriState(unit.out, unit.arg[1], FALSE)
    /\ Called("parse_etp_flag") => TriState(unit.out, unit.arg[1], TRUE)
    /\ Called("char2bool") =>
          IF unit.arg[1] = Ord("Y") THEN TookOne(unit.out, TRUE)
          ELSE IF unit.arg[1] = Ord("N") THEN TookOne(unit.out, FALSE)
          ELSE Rejected(unit.out)
    /\ Called("parse_stock_directory") =>
          LET ss == unit.arg[ShortSaleAt + 1]
              ipo == unit.arg[IpoAt + 1]
              etp == unit.arg[EtpAt + 1]
              tri == {Ord("Y"), Ord("N"), Sp}
          IN  IF ss \in tri /\ ipo \in tri /\ etp \in tri \cup {Ord("M")}
              THEN /\ unit.out.t = "Ok"
                   /\ unit.out.val.short_sale_threshold = FlagValue(ss)
                   /\ unit.out.val.ipo_flag = FlagValue(ipo)
                   /\ unit.out.val.etp_flag = FlagValue(etp)
              ELSE Rejected(unit.out)

\* A Stock Directory whose ETP flag is 'M' and whose other flags are 'Y' and
\* ' ' has been decoded.
C17_EtpFlagM ==
    /\ Called("parse_stock_directory")
    /\ unit.arg = StockDirectoryWith(Ord("Y"), Sp, Ord("M"))
    /\ unit.out.t = "Ok"
    /\ unit.out.val.etp_flag = Some(TRUE)

(***************************************************************************)
(* be_u48 on its own                                                       *)
(***************************************************************************)
U48Bytes == {0, 1, 255}
MaxU48Input == 7

U48Inputs ==
    UNION {[1..n -> U48Bytes] : n \in 0..MaxU48Input}
    \cup {<<40, 106, 171, 59, 58, 153>>, <<128, 0, 0, 0, 0, 0, 7>>}

U48Init ==
    /\ Idle
    /\ \E arg \in U48Inputs :
          unit = [fn |-> "be_u48", arg |-> arg, done |-> FALSE, out |-> <<>>]

ApplyBeU48 ==
    /\ unit.fn = "be_u48" /\ ~unit.done
    /\ unit' = Returned(be_u48(SliceOf(unit.arg)))
    /\ StreamUntouched

U48Next == ApplyBeU48

SpecU48 == U48Init /\ [][U48Next]_vars

\* The decimal digits of n (a natural number of the model).
RECURSIVE NatDigits(_)
NatDigits(n) == IF n = 0 THEN <<>> ELSE Append(NatDigits(n \div 10), n % 10)

\* The decimal digits of (the number of digits ds) * m + c.
RECURSIVE DigitsTimesPlus(_, _, _)
DigitsTimesPlus(ds, m, c) ==
    IF ds = <<>> THEN NatDigits(c)
    ELSE Append(DigitsTimesPlus(SubSeq(ds, 1, Len(ds) - 1), m,
                                (ds[Len(ds)] * m + c) \div 10),
                (ds[Len(ds)] * m + c) % 10)

\* The decimal digits of b[1]*256^(n-1) + ... + b[n].
RECURSIVE BigEndianDigits(_, _)
BigEndianDigits(b, n) ==
    IF n = 0 THEN <<>>
    ELSE DigitsTimesPlus(BigEndianDigits(b, n - 1), 256, b[n])

\* C18: on an input of at least 6 bytes be_u48 consumes exactly 6 and returns
\* b0*2^40 + b1*2^32 + b2*2^24 + b3*2^16 + b4*2^8 + b5, a value below 2^48; on
\* a shorter input it reports incomplete, not an error, and consumes nothing.
C18_BeU48 ==
    Called("be_u48") =>
        IF Len(unit.arg) >= 6
        THEN /\ unit.out.t = "Ok"
             /\ unit.out.rest.lo = 6 /\ SLen(unit.out.rest) = Len(unit.arg) - 6
             /\ Len(unit.out.val) = 3
             /\ \A k \in 1..3 : unit.out.val[k] \in 0..65535
             /\ DigitsOf(unit.out.val, <<>>) = BigEndianDigits(unit.arg, 6)
        ELSE unit.out = Incomplete

\* be_u48 has decoded ff ff ff ff ff ff followed by one more byte: the value is
\* 2^48 - 1 = 281474976710655 and the byte is left.
C18_LargestU48 ==
    /\ Called("be_u48")
    /\ unit.arg = <<255, 255, 255, 255, 255, 255, 1>>
    /\ unit.out.t = "Ok"
    /\ DigitsOf(unit.out.val, <<>>) = <<2, 8, 1, 4, 7, 4, 9, 7, 6, 7, 1, 0, 6, 5, 5>>
    /\ SLen(unit.out.rest) = 1

(***************************************************************************)
(* parse_message on its own                                                *)
(***************************************************************************)
\* Tags whose body is integers only, with the size of the body.
PlainBodies == {<<"B", 8>>, <<"D", 8>>, <<"E", 20>>, <<"U", 24>>, <<"V", 24>>, <<"X", 12>>}

MessageFrames ==
    {FrameOf(id) : id \in WellFormed \cup MoreWellFormed}
    \cup {Frame(Ord(tb[1]), Zeros(tb[2])) : tb \in PlainBodies}

\* stock_locate, tracking_number and timestamp bytes (offsets 3..12).
Headers ==
    {<<0, 1, 0, 2, 0, 0, 0, 0, 0, 7>>,
     <<1, 2, 3, 4, 5, 6, 7, 8, 9, 10>>,
     <<255, 255, 255, 255, 255, 255, 255, 255, 255, 255>>}

HeaderLen == 13

WithHeader(f, h) == SubSeq(f, 1, 3) \o h \o SubSeq(f, HeaderLen + 1, Len(f))

\* The window holds the first n bytes of the frame, or the frame and one byte
\* of the next.
Window(f, n) == IF n <= Len(f) THEN SubSeq(f, 1, n) ELSE f \o <<0>>

MessageInit ==
    /\ Idle
    /\ \E f \in MessageFrames, h \in Headers :
          \E n \in 0..(Len(f) + 1) :
             unit = [fn |-> "parse_message", arg |-> Window(WithHeader(f, h), n),
                     need |-> Len(f), done |-> FALSE, out |-> <<>>]

ApplyParseMessage ==
    /\ unit.fn = "parse_message" /\ ~unit.done
    /\ unit' = Returned(parse_message(SliceOf(unit.arg)))
    /\ StreamUntouched

MessageNext == ApplyParseMessage

SpecMessage == MessageInit /\ [][MessageNext]_vars

\* The Body variant of each tag of the frames above.
VariantOf(tag) ==
    CASE tag = Ord("A") -> "AddOrder"
      [] tag = Ord("F") -> "AddOrder"
      [] tag = Ord("B") -> "BrokenTrade"
      [] tag = Ord("D") -> "DeleteOrder"
      [] tag = Ord("E") -> "OrderExecuted"
      [] tag = Ord("H") -> "TradingAction"
      [] tag = Ord("I") -> "Imbalance"
      [] tag = Ord("K") -> "IpoQuotingPeriod"
      [] tag = Ord("L") -> "ParticipantPosition"
      [] tag = Ord("N") -> "RetailPriceImprovementIndicator"
      [] tag = Ord("P") -> "NonCrossTrade"
      [] tag = Ord("Q") -> "CrossTrade"
      [] tag = Ord("R") -> "StockDirectory"
      [] tag = Ord("S") -> "SystemEvent"
      [] tag = Ord("U") -> "ReplaceOrder"
      [] tag = Ord("V") -> "MwcbDeclineLevel"
      [] tag = Ord("X") -> "OrderCancelled"

\* The message of a whole frame: its fields are the bytes at the fixed offsets.
FieldsAtOffsets ==
    /\ unit.out.t = "Ok"
    /\ unit.out.rest.lo = unit.need
    /\ unit.out.val.tag = unit.arg[3]
    /\ unit.out.val.stock_locate = unit.arg[4] * 256 + unit.arg[5]
    /\ unit.out.val.tracking_number = unit.arg[6] * 256 + unit.arg[7]
    /\ DigitsOf(unit.out.val.timestamp, <<>>) = BigEndianDigits(SubSeq(unit.arg, 8, 13), 6)
    /\ unit.out.val.body.variant = VariantOf(unit.arg[3])
    /\ unit.arg[3] = Ord("A") => unit.out.val.body.v.mpid = None
    /\ unit.arg[3] = Ord("F") =>
          unit.out.val.body.v.mpid = Some(SubSeq(unit.arg, unit.need - 3, unit.need))

\* The window ends right before the issue classification byte of a Stock
\* Directory frame (the header and 15 bytes of the body are there).
BeforeClassification == unit.arg[3] = Ord("R") /\ Len(unit.arg) = HeaderLen + 15

\* C19: the fields of a decoded Message are the bytes at the fixed offsets (tag
\* at 2, stock_locate at 3-4, tracking_number at 5-6, timestamp at 7-12), the
\* body variant is the tag's ('A' and 'F' both AddOrder, mpid None for 'A' and
\* the 4 bytes for 'F'); on a window shorter than the frame the attempt has no
\* result: it is Incomplete, or, when the window of a Stock Directory ends
\* right before the issue classification, the error Eof.
C19_FixedOffsets ==
    Called("parse_message") =>
        IF Len(unit.arg) >= unit.need THEN FieldsAtOffsets
        ELSE IF Len(unit.arg) >= 3 /\ BeforeClassification
        THEN unit.out.t = "Error" /\ unit.out.code = "Eof"
        ELSE unit.out.t = "Incomplete"

\* C19 as the specification states it: on every window shorter than the frame
\* the attempt reports incomplete, not an error.
C19_ShortIsIncomplete ==
    Called("parse_message") =>
        IF Len(unit.arg) >= unit.need THEN FieldsAtOffsets
        ELSE unit.out.t = "Incomplete"

\* An attributed Add Order ('F') with another frame's first byte after it has
\* been decoded: mpid is its last four bytes.
C19_AttributedAddOrder ==
    /\ Called("parse_message")
    /\ Len(unit.arg) = unit.need + 1 /\ unit.arg[3] = Ord("F")
    /\ unit.arg[4] = 255
    /\ unit.out.t = "Ok"
    /\ unit.out.val.body.v.mpid = Some(<<16, 16, 16, 16>>)

(***************************************************************************)
(* C20: the context of a decode error                                      *)
(***************************************************************************)
\* C20: whenever next reports a decode failure (an error other than Eof, the
\* latch not set), bufstart + 20 <= BUFSIZE: the slice
\* buffer[bufstart .. bufstart + 20] of the error's text is inside the buffer
\* and the call returns Some(Err(Parse(_))), never a panic on the slice.
C20_ContextInBounds ==
    /\ last.kind = "Panic" => last.err # "slice"
    /\ (~pending /\ last.kind = "Err" /\ last.err \in {"Parse(Char)", "Parse(MapOpt)"})
          => stream.bufstart + ContextLen <= BUFSIZE

(***************************************************************************)
(* C21: the free tail given to read                                        *)
(***************************************************************************)
\* C21: whenever fetch_more_bytes calls the source's read, bufend < BUFSIZE at
\* that time (after any compaction), so the slice buffer[bufend..] it passes
\* is not empty; a read that returns 0 from a source that never returns 0
\* early therefore means the source has no more bytes.
C21_ReadHasRoom ==
    /\ fetch.read => fetch.end1 < BUFSIZE
    /\ (FaultFree /\ fetch.read /\ fetch.ret = "Ok" /\ fetch.n = 0)
          => stream.reader.pos = SrcLen(stream.reader)

\* A read was given the last two bytes of the buffer and filled them.
C21_ReadIntoLastTwoBytes ==
    /\ fetch.read /\ ~fetch.compacted
    /\ fetch.end1 = BUFSIZE - 2
    /\ fetch.n = 2
    /\ stream.bufend = BUFSIZE

(***************************************************************************)
(* C22: what a decode failure changes                                      *)
(***************************************************************************)
\* The texts of the decode failures (ErrorKind::Char of alt, MapOpt of map_opt!).
DecodeErrs == {"Parse(Char)", "Parse(MapOpt)"}

\* The decode attempt on the unread window fails with an error other than Eof.
WindowFails ==
    Only({ r.t = "Error" /\ r.code # "Eof"
           : r \in {parse_message(Slice(stream.buffer, stream.bufstart, stream.bufend))} })

\* The step is the activation of next that yields a decode failure: it sets
\* the latch, changes nothing else of the stream and does not fetch.
FailingAttempt ==
    (hist'.calls = hist.calls + 1 /\ last'.kind = "Err" /\ last'.err \in DecodeErrs)
        => /\ stream' = [stream EXCEPT !.in_error_state = TRUE]
           /\ ~fetch'.called
           /\ hist'.oks = hist.oks

\* A call on a latched stream whose window fails to decode returns None and
\* changes nothing, the source included.
CallAfterFailure ==
    (~pending /\ stream.in_error_state /\ WindowFails)
        => /\ last'.kind = "None"
           /\ stream' = stream
           /\ ~fetch'.called
           /\ hist'.oks = hist.oks

\* C22: the decode attempt that yields a decode-failure Err changes nothing but
\* the latch (bufstart, bufend, the buffer, bytes_read and message_ct are
\* unchanged and the source is not read; the call it belongs to may have
\* refilled the buffer before that attempt); every later call returns None
\* without reading the source and without moving the cursors, so the bytes
\* after the malformed frame are never decoded.
C22_FailureOnlyLatches == [][FailingAttempt /\ CallAfterFailure]_vars

\* C22 as the specification states it, of the whole call: the call of next
\* that yields the decode-failure Err has not read the source and has moved
\* neither cursor.
C22_FailingCallReadsNothing ==
    (~pending /\ last.kind = "Err" /\ last.err \in DecodeErrs)
        => /\ stream.read_calls = hist.entryReads
           /\ stream.bufstart = hist.entryStart

\* After a Trading Action frame with an unknown state was reported, a later
\* call has returned None; the one read of the stream had brought the System
\* Event frame behind it, which still lies unread in the window.
C22_BytesAfterFailureLeft ==
    /\ ~pending /\ last.kind = "None"
    /\ input.ids = <<"H!", "S">>
    /\ hist.errs = 1 /\ hist.oks = 0 /\ hist.calls >= 2
    /\ stream.in_error_state
    /\ stream.read_calls = 1
    /\ stream.bufstart = 0
    /\ stream.bufend = Len(FrameOf("H!")) + Len(FrameOf("S"))

(***************************************************************************)
(* C23: the stream's counters                                              *)
(***************************************************************************)
\* The bytes of the first n frames of the source.
RECURSIVE TailFrameBytes(_)
TailFrameBytes(n) ==
    IF n = 0 THEN 0 ELSE TailFrameBytes(n - 1) + Len(FrameOf(input.ids[n]))

FrameBytes(n) ==
    IF n <= input.fill THEN n * Len(SystemEventFrame)
    ELSE input.fill * Len(SystemEventFrame) + TailFrameBytes(n - input.fill)

\* buffer_pos of the Debug impl: self.bytes_read - (self.bufend - self.bufstart)
BufferPos == stream.bytes_read - (stream.bufend - stream.bufstart)

\* C23: in every reachable state bytes_read is the sum of the counts the
\* successful reads returned (the bytes the source has delivered), message_ct
\* is the number of Some(Ok(_)) results yielded, and
\* bytes_read >= bufend - bufstart, so the buffer position of the Debug impl
\* does not underflow and is the number of bytes the decoded frames took;
\* compaction keeps all of this.
C23_Counters ==
    /\ stream.bytes_read = stream.reader.pos
    /\ stream.message_ct = hist.oks
    /\ stream.bytes_read >= stream.bufend - stream.bufstart
    /\ BufferPos >= 0
    /\ BufferPos = FrameBytes(hist.oks)

\* After a compaction the stream has decoded the Stock Directory frame that lay
\* across the end of the buffer: the buffer position is past the buffer's size
\* while bufstart is at the frame's end near the front.
C23_PositionAfterCompaction ==
    /\ ~pending /\ last.kind = "Ok"
    /\ hist.compactions >= 1
    /\ NameAt(hist.oks) = "R"
    /\ BufferPos > BUFSIZE
    /\ stream.bufstart = Len(FrameOf("R"))
====
